---- MODULE Spec2Model ----
(***************************************************************************)
(* Model of src/src/data_recombination.py: the span splicer, the three     *)
(* grammar inducers, the strategy fold of setup_grammar and the rejection  *)
(* sampling loop of Augmenter.sample.                                      *)
(*                                                                         *)
(* A string is a sequence of symbols.  In the splice specification a       *)
(* symbol is a one-character string.                                       *)
(***************************************************************************)
EXTENDS Integers, Sequences, FiniteSets, TLC

VARIABLES
    s, swaps, ret,      \* splice: the arguments and the returned string
    dataset,            \* Augmenter.dataset: a sequence of (x, y) pairs
    domain,             \* Augmenter.domain: the alignment collaborator
    grammar,            \* the grammar under construction / Augmenter.grammar
    aug_types, idx,     \* setup_grammar: the identifier list and the loop index
    support,            \* the pairs self.grammar.sample() can return
    num, aug_data,      \* sample: the request and the accepted pairs
    last,               \* sample: the pair (x, y) of the latest draw
    pc                  \* position of the running operation

vars == <<s, swaps, ret, dataset, domain, grammar, aug_types, idx, support, num,
          aug_data, last, pc>>

spliceVars == <<s, swaps, ret>>
setupVars == <<aug_types, idx>>
sampleVars == <<support, num, aug_data, last>>

----------------------------------------------------------------------------
(* Bounds *)
MaxLen == 3
MaxSwaps == 2
MaxStr == 2
MaxAlign == 2
MaxTypes == 2
MaxNum == 2
MaxDepth == 3

----------------------------------------------------------------------------
(* Python helpers *)

\* s[:n] for 0 <= n
Prefix(str, n) == SubSeq(str, 1, IF n < Len(str) THEN n ELSE Len(str))

\* s[n:] for 0 <= n
Suffix(str, n) == SubSeq(str, n + 1, Len(str))

\* s[a:b] for 0 <= a, 0 <= b
Slice(str, a, b) == SubSeq(str, a + 1, IF b < Len(str) THEN b ELSE Len(str))

\* tuple comparison p < q of two (start, end) spans
SpanLess(p, q) == p[1] < q[1] \/ (p[1] = q[1] /\ p[2] < q[2])

RECURSIVE InsertDesc(_, _)
InsertDesc(e, sq) ==
    IF sq = <<>> THEN <<e>>
    ELSE IF SpanLess(Head(sq)[1], e[1]) THEN <<e>> \o sq
    ELSE <<Head(sq)>> \o InsertDesc(e, Tail(sq))

\* a splice that does not sort its swaps
SortDescKeepsOrder(sw) == sw

\* swaps.sort(key=lambda x: x[0], reverse=True): stable, descending by span
RECURSIVE SortDesc(_)
SortDesc(sw) ==
    IF sw = <<>> THEN <<>>
    ELSE InsertDesc(sw[Len(sw)], SortDesc(SubSeq(sw, 1, Len(sw) - 1)))

\* a test of the span's start instead of its end
NonDisjointByStart(span, cur_left) == span[1] > cur_left

\* the disjointness test of the loop
NonDisjoint(span, cur_left) == span[2] > cur_left

Raised == [ok |-> FALSE, s |-> <<>>]

RECURSIVE SpliceLoop(_, _, _)
SpliceLoop(new_s, cur_left, sw) ==
    IF sw = <<>> THEN [ok |-> TRUE, s |-> new_s]
    ELSE LET span == Head(sw)[1]
             rep  == Head(sw)[2]
         IN  IF NonDisjoint(span, cur_left) THEN Raised
             ELSE SpliceLoop(Prefix(new_s, span[1]) \o rep \o Suffix(new_s, span[2]),
                             span[1], Tail(sw))

splice(str, sw) == SpliceLoop(str, Len(str), SortDesc(sw))

----------------------------------------------------------------------------
(* Grammar (grammar.py, not among the sources): rule storage.               *)
(* In rules a symbol is a pair: <<c, -1>> is the literal character c and    *)
(* <<cat, n>> with n >= 0 is the placeholder text '%s_%d' % (cat, n).       *)

ROOT == "$ROOT"

Lit(c) == <<c, -1>>
Lits(str) == [i \in DOMAIN str |-> Lit(str[i])]
IsTok(sym) == sym[2] >= 0

\* Grammar.add_rule: a category's rules form a set
add_rule(g, cat, x_str, y_str) == g \cup {<<cat, x_str, y_str>>}

\* Grammar(dataset): one literal ROOT rule per example
BaseGrammar(ds) == {<<ROOT, ds[i][1], ds[i][2]>> : i \in DOMAIN ds}

\* the least index of a non-empty set of indices
Least(indices) == CHOOSE i \in indices : \A j \in indices : i <= j

\* pattern with every occurrence of tok replaced by text
RECURSIVE SubstTok(_, _, _)
SubstTok(pattern, tok, text) ==
    IF \A i \in DOMAIN pattern : pattern[i] # tok THEN pattern
    ELSE LET i == Least({j \in DOMAIN pattern : pattern[j] = tok})
         IN  SubSeq(pattern, 1, i - 1) \o text
             \o SubstTok(SubSeq(pattern, i + 1, Len(pattern)), tok, text)

\* Grammar.sample(cat): the pairs a recursive expansion of at most depth
\* levels can return.  A rule of the category is chosen, every placeholder
\* of its x side is replaced by a sample of the placeholder's category, and
\* the y side's occurrences of that placeholder by the sample's y side.
RECURSIVE Derive(_, _, _)
RECURSIVE Expand(_, _, _, _)
Derive(g, cat, depth) ==
    IF depth = 0 THEN {}
    ELSE UNION {Expand(g, r[2], r[3], depth) : r \in {q \in g : q[1] = cat}}
Expand(g, x, y, depth) ==
    IF \A i \in DOMAIN x : ~IsTok(x[i]) THEN {<<x, y>>}
    ELSE LET i == Least({j \in DOMAIN x : IsTok(x[j])})
         IN  UNION {Expand(g, SubSeq(x, 1, i - 1) \o sub[1] \o SubSeq(x, i + 1, Len(x)),
                           SubstTok(y, x[i], sub[2]), depth)
                    : sub \in Derive(g, x[i][1], depth - 1)}

(* Domain (domains.py, not among the sources): a table from (x, y) to the   *)
(* answer, empty for a pair the table does not hold.                        *)
NoDomain == [ent |-> {}, nest |-> {}]

get_entity_alignments(dom, x, y) ==
    IF \E e \in dom.ent : e[1] = x /\ e[2] = y
    THEN (CHOOSE e \in dom.ent : e[1] = x /\ e[2] = y)[3]
    ELSE <<>>

get_nesting_alignments(dom, x, y) ==
    IF \E e \in dom.nest : e[1] = x /\ e[2] = y
    THEN LET e == CHOOSE e \in dom.nest : e[1] = x /\ e[2] = y IN <<e[3], e[4]>>
    ELSE << <<>>, <<>> >>

----------------------------------------------------------------------------
(* The inducers *)

\* '%s_%d' % (inner_cat, x_span[0])
Placeholder(inner_cat, x_span) == <<inner_cat, x_span[1]>>

\* list(set([(x_span, token) ...])): one entry per distinct (span, token).
\* splice sorts the list by span, so the order in which the set is read only
\* shows between entries of equal span, and two equal non-empty spans raise.
RECURSIVE SetToSeq(_)
SetToSeq(S) ==
    IF S = {} THEN <<>>
    ELSE LET e == CHOOSE e \in S : TRUE
         IN  <<e>> \o SetToSeq(S \ {e})

\* x-side placeholders keyed by the x-span's end
x_swapsBySpanEnd(alignments) ==
    SetToSeq({<<alignments[i][2], << <<alignments[i][1], alignments[i][2][2]>> >> >> :
                 i \in DOMAIN alignments})

x_swaps(alignments) ==
    SetToSeq({<<alignments[i][2], <<Placeholder(alignments[i][1], alignments[i][2])>> >> :
                 i \in DOMAIN alignments})

\* y-side placeholders keyed by the y-span's start
y_swapsByYStart(alignments) ==
    [i \in DOMAIN alignments |->
        <<alignments[i][3], << <<alignments[i][1], alignments[i][3][1]>> >> >>]

\* one entry per alignment, keyed by the x-span start
y_swaps(alignments) ==
    [i \in DOMAIN alignments |->
        <<alignments[i][3], <<Placeholder(alignments[i][1], alignments[i][2])>> >>]

\* the templated rule of one start rule; ok is FALSE when a splice raises
Template(rule, alignments) ==
    LET x_new == splice(rule[2], x_swaps(alignments))
        y_new == splice(rule[3], y_swaps(alignments))
    IN  [ok |-> x_new.ok /\ y_new.ok, rule |-> <<rule[1], x_new.s, y_new.s>>]

\* entity rules whose x text is cut with the y-span
EntityRulesXByYSpan(dom, ds) ==
    UNION {LET x == ds[k][1]
               y == ds[k][2]
               al == get_entity_alignments(dom, x, y)
           IN  {<<al[i][1], Slice(x, al[i][3][1], al[i][3][2]),
                            Slice(y, al[i][3][1], al[i][3][2])>> : i \in DOMAIN al}
           : k \in DOMAIN ds}

EntityRules(dom, ds) ==
    UNION {LET x == ds[k][1]
               y == ds[k][2]
               al == get_entity_alignments(dom, x, y)
           IN  {<<al[i][1], Slice(x, al[i][2][1], al[i][2][2]),
                            Slice(y, al[i][3][1], al[i][3][2])>> : i \in DOMAIN al}
           : k \in DOMAIN ds}

induce_entity_grammar(dom, ds, start_grammar) ==
    LET t(r) == Template(r, get_entity_alignments(dom, r[2], r[3]))
    IN  [ok |-> \A r \in start_grammar : t(r).ok,
         g  |-> EntityRules(dom, ds) \cup {t(r).rule : r \in start_grammar}]

induce_nesting_grammar(dom, start_grammar) ==
    LET na(r) == get_nesting_alignments(dom, r[2], r[3])
        t(r) == Template(r, na(r)[1])
    IN  [ok |-> \A r \in start_grammar : t(r).ok,
         g  |-> UNION {{na(r)[2][i] : i \in DOMAIN na(r)[2]} : r \in start_grammar}
                \cup {t(r).rule : r \in start_grammar}]

\* ' [SEP] '.join('$sentence_%d' % i for i in range(concat_num))
RECURSIVE JoinSentences(_, _)
JoinSentences(i, concat_num) ==
    IF i >= concat_num THEN <<>>
    ELSE (IF i > 0 THEN <<Lit(" [SEP] ")>> ELSE <<>>)
         \o << <<"$sentence", i>> >>
         \o JoinSentences(i + 1, concat_num)

\* a concat that leaves the ROOT rules under ROOT
induce_concat_keeps_root(start_grammar, concat_num) ==
    LET root_str == JoinSentences(0, concat_num)
    IN  [ok |-> TRUE, g |-> add_rule(start_grammar, ROOT, root_str, root_str)]

induce_concat_grammar(start_grammar, concat_num) ==
    LET root_str == JoinSentences(0, concat_num)
        moved == {IF r[1] = ROOT THEN <<"$sentence", r[2], r[3]>> ELSE r : r \in start_grammar}
    IN  [ok |-> TRUE, g |-> add_rule(moved, ROOT, root_str, root_str)]

----------------------------------------------------------------------------
(* setup_grammar: the identifiers are strings, here sequences of characters *)

IdEntity  == <<"e", "n", "t", "i", "t", "y">>
IdNesting == <<"n", "e", "s", "t", "i", "n", "g">>
IdConcat  == <<"c", "o", "n", "c", "a", "t">>
IdConcat0 == IdConcat \o <<"0">>
IdConcat1 == IdConcat \o <<"1">>
IdConcat2 == IdConcat \o <<"2">>
IdNest    == <<"n", "e", "s", "t">>
IdFoo     == <<"f", "o", "o">>

startswith(str, prefix) ==
    Len(str) >= Len(prefix) /\ SubSeq(str, 1, Len(prefix)) = prefix

Digits == <<"0", "1", "2", "3", "4", "5", "6", "7", "8", "9">>
IsDigit(c) == \E d \in DOMAIN Digits : Digits[d] = c
DigitVal(c) == (CHOOSE d \in DOMAIN Digits : Digits[d] = c) - 1

RECURSIVE Decimal(_)
Decimal(str) ==
    IF str = <<>> THEN 0
    ELSE 10 * Decimal(SubSeq(str, 1, Len(str) - 1)) + DigitVal(str[Len(str)])

\* int(str) of a string of digits with an optional sign; ok is FALSE where
\* int raises ValueError (the empty string, a character that is no digit)
int(str) ==
    LET signed == str # <<>> /\ str[1] \in {"+", "-"}
        body == IF signed THEN Tail(str) ELSE str
    IN  IF body # <<>> /\ \A i \in DOMAIN body : IsDigit(body[i])
        THEN [ok |-> TRUE,
              val |-> IF signed /\ str[1] = "-" THEN 0 - Decimal(body) ELSE Decimal(body)]
        ELSE [ok |-> FALSE, val |-> 0]

\* a loop body whose last branch takes every other identifier
SetupStepElseConcat(dom, ds, g, aug_type) ==
    IF aug_type = IdEntity THEN induce_entity_grammar(dom, ds, g)
    ELSE IF aug_type = IdNesting THEN induce_nesting_grammar(dom, g)
    ELSE LET concat_num == int(SubSeq(aug_type, 7, Len(aug_type)))
         IN  IF concat_num.ok THEN induce_concat_grammar(g, concat_num.val)
             ELSE [ok |-> FALSE, g |-> g]

\* one pass of the loop body: the grammar after aug_type, or ok = FALSE when
\* the pass raises (int's ValueError, splice's ValueError)
SetupStep(dom, ds, g, aug_type) ==
    IF aug_type = IdEntity THEN induce_entity_grammar(dom, ds, g)
    ELSE IF aug_type = IdNesting THEN induce_nesting_grammar(dom, g)
    ELSE IF startswith(aug_type, IdConcat)
         THEN LET concat_num == int(SubSeq(aug_type, 7, Len(aug_type)))
              IN  IF concat_num.ok THEN induce_concat_grammar(g, concat_num.val)
                  ELSE [ok |-> FALSE, g |-> g]
    ELSE [ok |-> TRUE, g |-> g]

RECURSIVE SetupFold(_, _, _, _)
SetupFold(dom, ds, g, types) ==
    IF types = <<>> THEN [ok |-> TRUE, g |-> g]
    ELSE LET r == SetupStep(dom, ds, g, Head(types))
         IN  IF r.ok THEN SetupFold(dom, ds, r.g, Tail(types)) ELSE r

setup_grammar(dom, ds, types) == SetupFold(dom, ds, BaseGrammar(ds), types)

----------------------------------------------------------------------------
(* Values of the variables an operation does not use *)

NoSplice == s = <<>> /\ swaps = <<>> /\ ret = <<>>
NoSetup == aug_types = <<>> /\ idx = 0
NoSample == support = {} /\ num = 0 /\ aug_data = <<>> /\ last = << <<>>, <<>> >>

----------------------------------------------------------------------------
(* Specification of splice as a pure function *)

\* the spliced strings are the prefixes of one text: splice reads offsets only
Text == <<"a", "b", "c", "d", "e">>
Reps == {<<>>, <<"X">>, <<"Y", "Z">>}

RECURSIVE SeqsUpTo(_, _)
SeqsUpTo(S, n) ==
    IF n = 0 THEN {<<>>}
    ELSE LET shorter == SeqsUpTo(S, n - 1)
         IN  shorter \cup {Append(q, e) : q \in {t \in shorter : Len(t) = n - 1}, e \in S}

SpansIn(n) == {<<a, b>> : a \in 0..n, b \in 0..n} \cap {sp \in (0..n) \X (0..n) : sp[1] <= sp[2]}

InitSplice ==
    /\ \E n \in 0..MaxLen : s = SubSeq(Text, 1, n)
    /\ swaps \in SeqsUpTo(SpansIn(Len(s)) \X Reps, MaxSwaps)
    /\ ret = <<>>
    /\ dataset = <<>>
    /\ domain = NoDomain
    /\ grammar = {}
    /\ NoSetup
    /\ NoSample
    /\ pc = "call"

SpliceReturn ==
    /\ pc = "call"
    /\ splice(s, swaps).ok
    /\ ret' = splice(s, swaps).s
    /\ pc' = "returned"
    /\ UNCHANGED <<s, swaps, dataset, domain, grammar, setupVars, sampleVars>>

SpliceRaise ==
    /\ pc = "call"
    /\ ~splice(s, swaps).ok
    /\ pc' = "raised"
    /\ UNCHANGED <<s, swaps, ret, dataset, domain, grammar, setupVars, sampleVars>>

NextSplice == SpliceReturn \/ SpliceRaise

SpecSplice == InitSplice /\ [][NextSplice]_vars

----------------------------------------------------------------------------
(* Properties of splice *)

Overlap(p, q) == \E k \in 0..MaxLen + 1 : p[1] <= k /\ k < p[2] /\ q[1] <= k /\ k < q[2]
Disjoint(sw) == \A i, j \in DOMAIN sw : i # j => ~Overlap(sw[i][1], sw[j][1])
NonEmpty(sw) == \A i \in DOMAIN sw : sw[i][1][1] < sw[i][1][2]
\* no empty span lies strictly inside another span of the list
NoneInside(sw) ==
    \A i, j \in DOMAIN sw :
        ~(sw[i][1][1] = sw[i][1][2] /\ sw[j][1][1] < sw[i][1][1] /\ sw[i][1][2] < sw[j][1][2])

RECURSIVE SpanTotal(_)
SpanTotal(sw) ==
    IF sw = <<>> THEN 0 ELSE Head(sw)[1][2] - Head(sw)[1][1] + SpanTotal(Tail(sw))

RECURSIVE TextTotal(_)
TextTotal(sw) == IF sw = <<>> THEN 0 ELSE Len(Head(sw)[2]) + TextTotal(Tail(sw))

\* the replacement texts of the empty spans at offset k, the later of the
\* list first
RECURSIVE InsertedAt(_, _)
InsertedAt(k, sw) ==
    IF sw = <<>> THEN <<>>
    ELSE InsertedAt(k, Tail(sw))
         \o (IF Head(sw)[1] = <<k, k>> THEN Head(sw)[2] ELSE <<>>)

\* str read from offset k on: a character outside the spans is kept, a span
\* is skipped and its replacement text put in its place
RECURSIVE Walk(_, _, _)
Walk(k, str, sw) ==
    IF k >= Len(str) THEN InsertedAt(k, sw)
    ELSE IF \E i \in DOMAIN sw : sw[i][1][1] = k /\ sw[i][1][2] > k
         THEN LET i == CHOOSE i \in DOMAIN sw : sw[i][1][1] = k /\ sw[i][1][2] > k
              IN  InsertedAt(k, sw) \o sw[i][2] \o Walk(sw[i][1][2], str, sw)
         ELSE InsertedAt(k, sw) \o <<str[k + 1]>> \o Walk(k + 1, str, sw)

Replaced ==
    /\ pc = "returned"
    /\ ret = Walk(0, s, swaps)
    /\ Len(ret) = Len(s) - SpanTotal(swaps) + TextTotal(swaps)

\* C2 as stated: for pairwise disjoint spans inside s, in any order, splice
\* returns s with every span replaced by its text and the rest kept in
\* order, of length len(s) - replaced + replacements.
C2_ReplacesDisjoint == (pc # "call" /\ Disjoint(swaps)) => Replaced

\* C2 amended: the same for pairwise disjoint spans where no empty span lies
\* strictly inside another span; the texts of empty spans at one offset come
\* out the later of the list first.
C2_ReplacesDisjointNoneInside ==
    (pc # "call" /\ Disjoint(swaps) /\ NoneInside(swaps)) => Replaced

\* C2 witness: splice returned for two disjoint non-empty spans given in
\* ascending order, with texts of other lengths than the spans
C2_Witness ==
    /\ pc = "returned"
    /\ Len(swaps) = 2
    /\ NonEmpty(swaps)
    /\ swaps[1][1][2] <= swaps[2][1][1]
    /\ Len(ret) # Len(s)

\* C3: when two spans of the list share a character position, splice raises
\* and returns no string, in whatever order the list is given.
C3_RaisesOnOverlap == (pc # "call" /\ ~Disjoint(swaps)) => (pc = "raised" /\ ret = <<>>)

\* C3 witness: splice raised for two different spans with the same start
C3_Witness ==
    /\ pc = "raised"
    /\ Len(swaps) = 2
    /\ swaps[1][1][1] = swaps[2][1][1]
    /\ swaps[1][1][2] < swaps[2][1][2]
    /\ NonEmpty(swaps)

----------------------------------------------------------------------------
(* Specification of one induction step from the base grammar, with a       *)
(* domain that may answer any list of alignments with non-empty spans.     *)

XText == <<"a", "b", "c", "d">>
YTexts == {<<"p", "q", "p", "q">>, <<"p", "p", "q", "q">>}
Cats == {"$e"}

NonEmptySpans(n) == {sp \in SpansIn(n) : sp[1] < sp[2]}

MockProductions == << <<"$e", Lits(<<"a">>), Lits(<<"p">>)>> >>

InitInduce ==
    /\ \E n \in 0..MaxStr, m \in 0..MaxStr, yt \in YTexts :
          LET x == SubSeq(XText, 1, n)
              y == SubSeq(yt, 1, m)
          IN
          \E al \in SeqsUpTo(Cats \X NonEmptySpans(Len(x)) \X NonEmptySpans(Len(y)), MaxAlign) :
            /\ dataset = << <<Lits(x), Lits(y)>> >>
            /\ domain = [ent  |-> {<<Lits(x), Lits(y), al>>},
                         nest |-> {<<Lits(x), Lits(y), al, MockProductions>>}]
    /\ grammar = BaseGrammar(dataset)
    /\ NoSplice
    /\ NoSetup
    /\ NoSample
    /\ pc = "base"

Entity ==
    /\ pc = "base"
    /\ LET r == induce_entity_grammar(domain, dataset, grammar)
       IN  IF r.ok THEN grammar' = r.g /\ pc' = "entity"
                   ELSE grammar' = grammar /\ pc' = "entity_raised"
    /\ UNCHANGED <<spliceVars, dataset, domain, setupVars, sampleVars>>

Nesting ==
    /\ pc = "base"
    /\ LET r == induce_nesting_grammar(domain, grammar)
       IN  IF r.ok THEN grammar' = r.g /\ pc' = "nesting"
                   ELSE grammar' = grammar /\ pc' = "nesting_raised"
    /\ UNCHANGED <<spliceVars, dataset, domain, setupVars, sampleVars>>

NextInduce == Entity \/ Nesting

SpecInduce == InitInduce /\ [][NextInduce]_vars

----------------------------------------------------------------------------
(* Specification of setup_grammar, one pass of its loop per step, over the *)
(* two examples of the module's docstring.                                 *)

TexasX == Lits(
    <<"w", "h", "a", "t", " ", "s", "t", "a", "t", "e", "s", " ", "b", "o",
      "r", "d", "e", "r", " ", "t", "e", "x", "a", "s", " ", "?">>)
TexasY == Lits(
    <<"a", "n", "s", "w", "e", "r", "(", "s", "t", "a", "t", "e", "(", "n",
      "e", "x", "t", "_", "t", "o", "(", "s", "t", "a", "t", "e", "i", "d",
      "(", "t", "e", "x", "a", "s", ")", ")", ")", ")">>)
OhioX == Lits(
    <<"w", "h", "a", "t", " ", "i", "s", " ", "t", "h", "e", " ", "h", "i",
      "g", "h", "e", "s", "t", " ", "m", "o", "u", "n", "t", "a", "i", "n",
      " ", "i", "n", " ", "o", "h", "i", "o", " ", "?">>)
OhioY == Lits(
    <<"a", "n", "s", "w", "e", "r", "(", "h", "i", "g", "h", "e", "s", "t",
      "(", "m", "o", "u", "n", "t", "a", "i", "n", "(", "l", "o", "c", "_",
      "2", "(", "s", "t", "a", "t", "e", "i", "d", "(", "o", "h", "i", "o",
      ")", ")", ")", ")", ")">>)

TexasPair == <<TexasX, TexasY>>
OhioPair == <<OhioX, OhioY>>

Datasets == {<<TexasPair>>, <<OhioPair>>, <<TexasPair, OhioPair>>}

\* "texas" is stateid(texas), "ohio" is stateid(ohio)
TexasEntity == <<"$state", <<19, 24>>, <<21, 35>>>>
OhioEntity == <<"$state", <<32, 36>>, <<30, 43>>>>
\* "states border texas" is state(next_to(stateid(texas)))
TexasProduction == <<"$state", Slice(TexasX, 5, 24), Slice(TexasY, 7, 37)>>

GeoDomain ==
    [ent  |-> {<<TexasX, TexasY, <<TexasEntity>> >>, <<OhioX, OhioY, <<OhioEntity>> >>},
     nest |-> {<<TexasX, TexasY, <<>>, <<TexasProduction>> >>,
               <<OhioX, OhioY, <<OhioEntity>>, <<>> >>}]

Domains == {NoDomain, GeoDomain}

Identifiers ==
    {IdEntity, IdNesting, IdConcat, IdConcat0, IdConcat1, IdConcat2, IdNest, IdFoo}

InitSetup ==
    /\ dataset \in Datasets
    /\ domain \in Domains
    /\ aug_types \in SeqsUpTo(Identifiers, MaxTypes)
    /\ grammar = BaseGrammar(dataset)
    /\ idx = 1
    /\ NoSplice
    /\ NoSample
    /\ pc = "setup"

InLoop == pc = "setup" /\ idx <= Len(aug_types)

\* the pass over aug_types[idx] when nothing raises
Pass ==
    LET r == SetupStep(domain, dataset, grammar, aug_types[idx])
    IN  /\ r.ok
        /\ grammar' = r.g
        /\ idx' = idx + 1
        /\ UNCHANGED <<spliceVars, dataset, domain, aug_types, sampleVars, pc>>

SetupEntity == InLoop /\ aug_types[idx] = IdEntity /\ Pass

SetupNesting == InLoop /\ aug_types[idx] = IdNesting /\ Pass

SetupConcat ==
    /\ InLoop
    /\ aug_types[idx] \notin {IdEntity, IdNesting}
    /\ startswith(aug_types[idx], IdConcat)
    /\ Pass

SetupSkip ==
    /\ InLoop
    /\ aug_types[idx] \notin {IdEntity, IdNesting}
    /\ ~startswith(aug_types[idx], IdConcat)
    /\ Pass

SetupRaise ==
    /\ InLoop
    /\ ~SetupStep(domain, dataset, grammar, aug_types[idx]).ok
    /\ pc' = "raised"
    /\ UNCHANGED <<spliceVars, dataset, domain, grammar, setupVars, sampleVars>>

\* self.grammar = grammar
SetupDone ==
    /\ pc = "setup"
    /\ idx > Len(aug_types)
    /\ pc' = "built"
    /\ UNCHANGED <<spliceVars, dataset, domain, grammar, setupVars, sampleVars>>

NextSetup ==
    SetupEntity \/ SetupNesting \/ SetupConcat \/ SetupSkip \/ SetupRaise \/ SetupDone

SpecSetup == InitSetup /\ [][NextSetup]_vars

----------------------------------------------------------------------------
(* Specification of Augmenter.sample on a constructed Augmenter *)

\* the pairs one call of self.grammar.sample() can return; the variable
\* support holds Sample(self.grammar), fixed once the grammar is built
Sample(g) == Derive(g, ROOT, MaxDepth)

\* a membership test against the first example only
InDatasetFirstOnly(pair, ds) == ds # <<>> /\ ds[1] = pair

\* (x, y) in self.dataset_set, the set of the dataset's pairs
InDataset(pair, ds) == \E i \in DOMAIN ds : ds[i] = pair

\* a loop test that runs once more
LoopTestInclusive(len, n) == len <= n

\* while len(aug_data) < num
LoopTest(len, n) == len < n

SampledStrategies == {IdEntity, IdNesting}

Init ==
    /\ dataset \in Datasets
    /\ domain \in Domains
    /\ aug_types \in SeqsUpTo(SampledStrategies, MaxTypes)
    /\ grammar = setup_grammar(domain, dataset, aug_types).g
    /\ idx = Len(aug_types) + 1
    /\ support = Sample(grammar)
    /\ num \in 0..MaxNum
    /\ aug_data = <<>>
    /\ last = << <<>>, <<>> >>
    /\ NoSplice
    /\ pc = "while"

Draw(pair) ==
    /\ pc = "while"
    /\ LoopTest(Len(aug_data), num)
    /\ last' = pair
    /\ pc' = "drawn"
    /\ UNCHANGED <<spliceVars, dataset, domain, grammar, setupVars, support, num, aug_data>>

\* a draw of a pair the dataset does not hold
DrawFresh == \E pair \in support : ~InDataset(pair, dataset) /\ Draw(pair)

\* a draw of a pair of the dataset
DrawOriginal == \E pair \in support : InDataset(pair, dataset) /\ Draw(pair)

\* the grammar has nothing to return: Grammar.sample raises
DrawFails ==
    /\ pc = "while"
    /\ LoopTest(Len(aug_data), num)
    /\ support = {}
    /\ pc' = "raised"
    /\ UNCHANGED <<spliceVars, dataset, domain, grammar, setupVars, sampleVars>>

\* if (x, y) in self.dataset_set: continue
Reject ==
    /\ pc = "drawn"
    /\ InDataset(last, dataset)
    /\ pc' = "while"
    /\ UNCHANGED <<spliceVars, dataset, domain, grammar, setupVars, sampleVars>>

\* an accept that loses the pair
AcceptLosesPair ==
    /\ pc = "drawn"
    /\ \A k \in DOMAIN dataset : dataset[k] # last
    /\ pc' = "while"
    /\ UNCHANGED <<spliceVars, dataset, domain, grammar, setupVars, sampleVars>>

\* aug_data.append((x, y))
Accept ==
    /\ pc = "drawn"
    /\ ~InDataset(last, dataset)
    /\ aug_data' = Append(aug_data, last)
    /\ pc' = "while"
    /\ UNCHANGED <<spliceVars, dataset, domain, grammar, setupVars, support, num, last>>

\* return aug_data
Return ==
    /\ pc = "while"
    /\ ~LoopTest(Len(aug_data), num)
    /\ pc' = "done"
    /\ UNCHANGED <<spliceVars, dataset, domain, grammar, setupVars, sampleVars>>

Next == DrawFresh \/ DrawOriginal \/ DrawFails \/ Reject \/ Accept \/ Return

Spec == Init /\ [][Next]_vars

\* the loop keeps running, and random.sample leaves no pair undrawn for ever:
\* while fresh pairs can be drawn again and again, one is drawn
FairSpec ==
    /\ Spec
    /\ WF_vars(DrawOriginal) /\ WF_vars(Reject) /\ WF_vars(Accept) /\ WF_vars(Return)
    /\ SF_vars(DrawFresh)

----------------------------------------------------------------------------
(* Properties of the inducers *)

Toks(str) == {str[i] : i \in {j \in DOMAIN str : IsTok(str[j])}}
TokCount(str, tok) == Cardinality({i \in DOMAIN str : str[i] = tok})

\* the rules the last induction step added as templated rules: the start
\* grammar here holds ROOT rules only and the domain names no ROOT category
TemplatedRules == {r \in grammar : r[1] = ROOT}

\* the alignments the domain answered for the start rule
Answered == get_entity_alignments(domain, dataset[1][1], dataset[1][2])

Induced == pc \in {"entity", "nesting"}

RECURSIVE PutBack(_, _, _, _)
PutBack(pattern, orig, al, side) ==
    IF al = <<>> THEN pattern
    ELSE PutBack(SubstTok(pattern, <<Head(al)[1], Head(al)[2][1]>>,
                          Slice(orig, Head(al)[side][1], Head(al)[side][2])),
                 orig, Tail(al), side)

RoundTrip ==
    \A r \in TemplatedRules :
        /\ PutBack(r[2], dataset[1][1], Answered, 2) = dataset[1][1]
        /\ PutBack(r[3], dataset[1][2], Answered, 3) = dataset[1][2]

\* alignments that share a placeholder token carry the same texts
SameTexts ==
    \A i, j \in DOMAIN Answered :
        (Answered[i][1] = Answered[j][1] /\ Answered[i][2][1] = Answered[j][2][1])
        => /\ Slice(dataset[1][1], Answered[i][2][1], Answered[i][2][2])
              = Slice(dataset[1][1], Answered[j][2][1], Answered[j][2][2])
           /\ Slice(dataset[1][2], Answered[i][3][1], Answered[i][3][2])
              = Slice(dataset[1][2], Answered[j][3][1], Answered[j][3][2])

\* C5 as stated: putting every alignment's own x text and y text back for
\* its placeholder in the templated rule reproduces x_str and y_str.
C5_RoundTrip == pc = "entity" => RoundTrip

\* C5 amended: the round trip reproduces x_str and y_str when the alignments
\* that share a placeholder carry the same x text and the same y text.
C5_RoundTripSameTexts == (pc = "entity" /\ SameTexts) => RoundTrip

\* C5 witness: an entity step templated a rule with two alignments of one
\* x-span, both y-spans holding the same text
C5_Witness ==
    /\ pc = "entity"
    /\ SameTexts
    /\ \E i, j \in DOMAIN Answered :
          i # j /\ Answered[i][2] = Answered[j][2] /\ Answered[i][3] # Answered[j][3]

----------------------------------------------------------------------------
(* Properties of induce_concat_grammar and of setup_grammar *)

\* a concat pass with a positive count is about to run
ConcatPass == InLoop /\ aug_types[idx] \in {IdConcat1, IdConcat2}
ConcatCount == IF aug_types[idx] = IdConcat1 THEN 1 ELSE 2

\* $sentence_0 [SEP] $sentence_1 [SEP] ... $sentence_{k-1}
ExpectedRoot(k) ==
    [i \in 1..(2 * k - 1) |->
        IF i % 2 = 1 THEN <<"$sentence", (i - 1) \div 2>> ELSE Lit(" [SEP] ")]

ConcatKeepsOthers == \A r \in grammar : r[1] # ROOT => r \in grammar'
ConcatRenamesRoot == \A r \in grammar : r[1] = ROOT => <<"$sentence", r[2], r[3]>> \in grammar'
ConcatOneRoot ==
    {r \in grammar' : r[1] = ROOT}
        = {<<ROOT, ExpectedRoot(ConcatCount), ExpectedRoot(ConcatCount)>>}

Supported(id) == id \in {IdEntity, IdNesting, IdConcat1, IdConcat2}

\* the identifiers no branch of the loop body takes
NoBranch(id) == id \notin {IdEntity, IdNesting} /\ ~startswith(id, IdConcat)

Without(types, dropped) == SelectSeq(types, LAMBDA id : id \notin dropped)

Unsupported(id) == ~Supported(id)
UnsupportedIds == {id \in Identifiers : Unsupported(id)}
NoBranchIds == {id \in Identifiers : NoBranch(id)}

\* C9 as stated: an unsupported identifier raises nothing and leaves the
\* grammar as it is, and the final grammar is that of the list without the
\* unsupported identifiers.
C9_SkipsUnsupported ==
    /\ [][(InLoop /\ Unsupported(aug_types[idx]))
            => (pc' = "setup" /\ grammar' = grammar)]_vars
    /\ [](pc = "built" =>
            grammar = setup_grammar(domain, dataset, Without(aug_types, UnsupportedIds)).g)

\* C9 amended: an identifier that is neither 'entity' nor 'nesting' and does
\* not start with 'concat' raises nothing and leaves the grammar as it is,
\* and the final grammar is that of the list without those identifiers.
C9_SkipsNoBranch ==
    /\ [][(InLoop /\ NoBranch(aug_types[idx]))
            => (pc' = "setup" /\ grammar' = grammar)]_vars
    /\ [](pc = "built" =>
            grammar = setup_grammar(domain, dataset, Without(aug_types, NoBranchIds)).g)

\* C9 witness: the loop skipped 'foo' and then ran 'entity'
C9_Witness ==
    /\ pc = "built"
    /\ aug_types = <<IdFoo, IdEntity>>
    /\ domain = GeoDomain
    /\ grammar # BaseGrammar(dataset)

----------------------------------------------------------------------------
(* Properties of Augmenter.sample *)

\* the pairs g generates that are no pair of ds
Fresh(g, ds) == {pair \in Sample(g) : \A k \in DOMAIN ds : ds[k] # pair}

\* C1: whatever was drawn so far, no accepted pair is a pair of the dataset,
\* and when sample(num) returns the list holds exactly num pairs.
C1_ExactlyNumFreshPairs ==
    /\ \A i \in DOMAIN aug_data : \A k \in DOMAIN dataset : aug_data[i] # dataset[k]
    /\ pc = "done" => Len(aug_data) = num

\* C1 witness: sample(num) returned num >= 1 pairs from a grammar that also
\* generates pairs of the dataset
C1_Witness ==
    /\ pc = "done"
    /\ num >= 1
    /\ Len(aug_data) = num
    /\ Fresh(grammar, dataset) # Sample(grammar)

\* C7 as stated: when the grammar generates more than num distinct pairs,
\* sample(num) returns under fair drawing.
C7_TerminatesIfManyOutputs ==
    Cardinality(Sample(grammar)) > num => <>(pc = "done")

\* C7 amended: when the grammar generates a pair that is not in the dataset,
\* sample(num) returns under fair drawing.
C7_TerminatesIfFreshOutput ==
    Fresh(grammar, dataset) # {} => <>(pc = "done")

\* C7 witness: sample(num) returned although draws could be rejected and the
\* grammar generates no more than num pairs that are not in the dataset
C7_Witness ==
    /\ pc = "done"
    /\ num >= 1
    /\ Cardinality(Fresh(grammar, dataset)) <= num
    /\ Sample(grammar) # Fresh(grammar, dataset)

\* the scenario of C8: the Texas example alone, its entity alignment, the
\* strategy list ['entity'] and sample(1)
TexasScenario ==
    /\ dataset = <<TexasPair>>
    /\ domain = GeoDomain
    /\ aug_types = <<IdEntity>>
    /\ num = 1

\* a state name and its denotation, as the domain's alignments give them
StateEntities ==
    {<<Slice(TexasX, 19, 24), Slice(TexasY, 21, 35)>>,
     <<Slice(OhioX, 32, 36), Slice(OhioY, 30, 43)>>}

\* the examples with the span of their state name and of its denotation
StateTemplates == {<<TexasPair, TexasEntity>>, <<OhioPair, OhioEntity>>}

\* pair is an example with another state in the place of its own: x differs
\* in the state name only and y carries that state's denotation
OtherState(pair, examples) ==
    \E tpl \in StateTemplates : \E e \in StateEntities :
        /\ tpl[1] \in examples
        /\ pair # tpl[1]
        /\ pair[1] = Prefix(tpl[1][1], tpl[2][2][1]) \o e[1]
                        \o Suffix(tpl[1][1], tpl[2][2][2])
        /\ pair[2] = Prefix(tpl[1][2], tpl[2][3][1]) \o e[2]
                        \o Suffix(tpl[1][2], tpl[2][3][2])

ReturnedOtherState(examples) ==
    /\ pc = "done"
    /\ Len(aug_data) = 1
    /\ OtherState(aug_data[1], examples)
    /\ \A k \in DOMAIN dataset : dataset[k] # aug_data[1]

\* the scenario with a second example that names another state
TwoStateScenario ==
    /\ dataset = <<TexasPair, OhioPair>>
    /\ domain = GeoDomain
    /\ aug_types = <<IdEntity>>
    /\ num = 1

\* C8 as stated: in the scenario sample(1) eventually returns one pair, the
\* Texas example with another state name and its denotation.
C8_ReturnsOtherState == TexasScenario => <>ReturnedOtherState({TexasPair})

\* C8 amended: with the Texas example alone sample(1) never returns, every
\* draw yields the original pair and is rejected; with a second example that
\* names another state, sample(1) eventually returns one pair that is an
\* example with the other state's name and denotation and no pair of the
\* dataset.
C8_ReturnsOtherStateOfDataset ==
    /\ TexasScenario =>
          [](/\ pc \in {"while", "drawn"}
             /\ aug_data = <<>>
             /\ pc = "drawn" => last = TexasPair)
    /\ TwoStateScenario => <>ReturnedOtherState({TexasPair, OhioPair})

\* C8 witness: with both examples sample(1) returned the Texas question
\* about ohio
C8_Witness ==
    /\ TwoStateScenario
    /\ ReturnedOtherState({TexasPair})
    /\ aug_data[1][1] = Prefix(TexasX, 19) \o Slice(OhioX, 32, 36) \o Suffix(TexasX, 24)

\* C10 as stated: with num >= 1 and at most num distinct pairs to generate,
\* sample(num) never returns.
C10_StarvesIfFewOutputs ==
    (num >= 1 /\ Cardinality(Sample(grammar)) <= num) => pc # "done"

\* C10 amended: with num >= 1 and every pair the grammar generates a pair of
\* the dataset, sample(num) never returns and accepts nothing.
C10_StarvesIfNoFreshOutput ==
    (num >= 1 /\ Fresh(grammar, dataset) = {}) => (pc # "done" /\ aug_data = <<>>)

\* C10 witness: a draw was rejected where every pair the grammar generates
\* is a pair of the dataset
C10_Witness ==
    /\ num >= 1
    /\ Sample(grammar) # {}
    /\ Fresh(grammar, dataset) = {}
    /\ pc = "while"
    /\ last # << <<>>, <<>> >>

====
